---------------------------- MODULE Spec2Model ----------------------------
(***************************************************************************)
(* Model of the trading-signal engine: src/main.py (RSI calculation, the   *)
(* decision tree, the notification policy and the run orchestration),      *)
(* src/state_manager.py (the persisted SignalRecord) and                   *)
(* src/lambda_function.py (the scheduled-job handler).                     *)
(*                                                                         *)
(* Conventions                                                             *)
(*  - An RSI value is the exact rational n/d, written [n |-> n, d |-> d];  *)
(*    Python's None is the value with d = 0.  Thresholds are in tenths     *)
(*    (82.5 is 825), so "value > threshold" is n*10 > thr*d.               *)
(*  - A label is the record [text, tickers, values]: the fixed labels have *)
(*    empty tickers/values, the label composed by the special logic keeps  *)
(*    the format string and its four arguments (values in hundredths, as   *)
(*    printed by the format).                                              *)
(*  - Time is the UTC hour since an origin; the US-Eastern date is derived *)
(*    from it as pytz does for standard time.                              *)
(***************************************************************************)
EXTENDS Integers, Sequences, FiniteSets, TLC

VARIABLES
    pc,             \* position of the current invocation
    now,            \* the clock: UTC hour
    ticker_data,    \* main.py global ticker_data: ticker -> downloaded frame
    rsi_cache,      \* main.py global rsi_cache: (ticker, window) -> RSI
    final_decision, \* main(): final_decision
    decision_path,  \* main(): decision_path
    current_id,     \* execute_logic(): current_id
    last_state,     \* main(): last_state, the result of read_state()
    today,          \* should_notify(): today
    notify,         \* main(): notify
    reason,         \* main(): reason
    env,            \* the process environment and the outcome of this run's I/O
    notified,       \* main(): notified
    state_file,     \* the stored documents of trading_state.json / the S3 object
    main_result,    \* how main() ended
    response,       \* what lambda_handler returned
    hist,           \* history: what the previous completed run stored and whether it
                    \* had decided to notify, the store at the start of this run, the
                    \* node ids visited
    rsi_call        \* a direct call of calculate_rsi_sma: its arguments and its result

vars == <<pc, now, ticker_data, rsi_cache, final_decision, decision_path,
          current_id, last_state, today, notify, reason, env, notified,
          state_file, main_result, response, hist, rsi_call>>

-----------------------------------------------------------------------------
(* Bounds of the model *)

\* the clock advances at most this many times in a behaviour
MaxTicks == 2

\* the longest enumerated price series and the largest enumerated window of a
\* direct call of calculate_rsi_sma
MaxPrices == 4
MaxWindow == 3

-----------------------------------------------------------------------------
(* Program constants *)

TICKERS == <<"QQQ", "VIXY", "SPY", "IOO", "XLP", "VTV", "XLF", "VOX",
             "CURE", "RETL", "LABU", "SOXL", "FNGU", "TQQQ", "TECL", "UPRO">>

TickerSet == {TICKERS[i] : i \in 1..Len(TICKERS)}

\* download_data: "if df.empty or len(df) < 60"
MinRows == 60

\* calculate_all_rsi: the default window and the two VIXY windows
Window9 == 9
Window50 == 50
Window60 == 60

-----------------------------------------------------------------------------
(* Values *)

None == [n |-> 0, d |-> 0]

\* a float given in tenths
Tenths(x) == [n |-> x, d |-> 10]

\* the default of rsi_cache.get(key, 0)
Zero == [n |-> 0, d |-> 1]

\* 100.0
Hundred == [n |-> 100, d |-> 1]

\* a < b on floats
Less(a, b) == a.n * b.d < b.n * a.d

\* f"{v:.1f}": the value in tenths, rounded to nearest
Format1f(v) == (20 * v.n + v.d) \div (2 * v.d)

\* f"{v:.2f}": the value in hundredths, rounded to nearest
Format2f(v) == (200 * v.n + v.d) \div (2 * v.d)

\* a marker for a NaN close
NaN == 0 - 1


-----------------------------------------------------------------------------
(* Indicator Calculator: calculate_rsi_sma *)

RECURSIVE SumSeq(_)
\* np.mean's numerator: the sum of a sequence
SumSeq(s) == IF s = <<>> THEN 0 ELSE Head(s) + SumSeq(Tail(s))

\* np.diff(prices)
Diffs(prices) == [i \in 1..(Len(prices) - 1) |-> prices[i + 1] - prices[i]]

\* np.where(diffs > 0, diffs, 0)
Ups(diffs) == [i \in 1..Len(diffs) |-> IF diffs[i] > 0 THEN diffs[i] ELSE 0]

\* np.where(diffs < 0, np.abs(diffs), 0)
Downs(diffs) == [i \in 1..Len(diffs) |-> IF diffs[i] < 0 THEN 0 - diffs[i] ELSE 0]

\* s[-(window):]
LastN(s, window) == IF Len(s) <= window THEN s ELSE SubSeq(s, Len(s) - window + 1, Len(s))

\* calculate_rsi_sma without "if avg_down == 0: return 100.0"
calculate_rsi_sma_unguarded(prices, window) ==
    IF Len(prices) < window + 1
    THEN None
    ELSE LET diffs == Diffs(prices)
             su == SumSeq(LastN(Ups(diffs), window))
             sd == SumSeq(LastN(Downs(diffs), window))
         IN  [n |-> 100 * (sd + su) - 100 * sd, d |-> sd + su]

\* With avg_up = su/window and avg_down = sd/window: avg_down == 0 iff sd = 0,
\* rs = su/sd, and 100 - 100/(1 + rs) = (100*(sd + su) - 100*sd) / (sd + su).
calculate_rsi_sma(prices, window) ==
    IF Len(prices) < window + 1
    THEN None
    ELSE LET diffs == Diffs(prices)
             su == SumSeq(LastN(Ups(diffs), window))
             sd == SumSeq(LastN(Downs(diffs), window))
         IN  IF sd = 0
             THEN Hundred
             ELSE [n |-> 100 * (sd + su) - 100 * sd, d |-> sd + su]

-----------------------------------------------------------------------------
(* Market data: what yf.download can hand back for one ticker *)

\* the frame's Close column: `nans` leading NaN rows, then a trend
Closes(df) ==
    [i \in 1..df.rows |->
        IF i <= df.nans THEN NaN
        ELSE IF df.trend = "up" THEN 100 + i
        ELSE IF df.trend = "down" THEN 200 - i
        ELSE 100 + (i % 2)]

\* no frame stored for the ticker ("ticker not in ticker_data")
NoFrame == [err |-> FALSE, rows |-> 0, nans |-> 0, trend |-> "mixed"]

Frame(rows, nans, trend) == [err |-> FALSE, rows |-> rows, nans |-> nans, trend |-> trend]

\* yf.download raised
Raised == [err |-> TRUE, rows |-> 0, nans |-> 0, trend |-> "mixed"]

\* The price histories of one run.  All tickers are asked for the same date
\* range, so a healthy market hands back the same number of rows for each; the
\* tickers in `trending` move one way, the others have no clear trend.
Healthy(rows, trending, trend) ==
    [t \in TickerSet |-> Frame(rows, 0, IF t \in trending THEN trend ELSE "mixed")]

\* what can be wrong with one ticker's answer: the download raised, an empty
\* frame, one row too few, or only Window9 closes that are not NaN
Faults ==
    { Raised,
      Frame(0, 0, "mixed"),
      Frame(MinRows - 1, 0, "mixed"),
      Frame(Window60 + 1, Window60 + 1 - Window9, "mixed") }

\* the healthy markets of the model: a rally or a sell-off of every ticker, of
\* TQQQ alone, or of none, with MinRows rows or with one more than Window60
HealthyMarkets ==
    { Healthy(rows, trending, trend) :
        rows \in {MinRows, Window60 + 1},
        trending \in {TickerSet, {"TQQQ"}},
        trend \in {"up", "down", "mixed"} }

\* a quiet market with one ticker at fault
FaultyMarkets ==
    { [t \in TickerSet |-> IF t = odd THEN f ELSE Frame(Window60 + 1, 0, "mixed")] :
        odd \in TickerSet, f \in Faults }

\* one run's answers from yf.download
Markets == HealthyMarkets \cup FaultyMarkets

-----------------------------------------------------------------------------
(* Indicator cache *)

\* every key calculate_all_rsi can put
Keys == {<<t, Window9>> : t \in TickerSet} \cup {<<"VIXY", Window50>>, <<"VIXY", Window60>>}

EmptyCache == [k \in {} |-> None]

\* rsi_cache[(ticker, window)] = value
Put(cache, ticker, window, value) ==
    [k \in (DOMAIN cache) \cup {<<ticker, window>>} |->
        IF k = <<ticker, window>> THEN value ELSE cache[k]]

\* rsi_cache.get((ticker, window), 0)
get_rsi(cache, ticker, window) ==
    IF <<ticker, window>> \in DOMAIN cache THEN cache[<<ticker, window>>] ELSE Zero

-----------------------------------------------------------------------------
(* Labels and successors *)

\* a fixed terminal string
Label(text) == [text |-> text, tickers |-> <<>>, values |-> <<>>]

\* no label (nothing decided)
NoLabel == Label("")

\* a successor that is a node id
Goto(id) == [isstr |-> FALSE, id |-> id, str |-> ""]

\* a successor that is a string
Str(text) == [isstr |-> TRUE, id |-> 0, str |-> text]

VIX15 == Str("1.5x VIX Group (VXX, UVIX)")
VIXBlend == Str("VIX Blend (VXX=0.45, VIXM=0.2, UVIX=0.35)")
VIX1 == Str("1x VIX (VIXY)")

\* one entry of logic_tree; its condition lambda reads the same ticker, window,
\* operator and threshold as the entry's fields (threshold in tenths)
Node(ticker, window, operator, threshold, true, false) ==
    [ticker |-> ticker, window |-> window, operator |-> operator,
     threshold |-> threshold, true |-> true, false |-> false]

NodeIds == {1, 2, 3, 4, 5, 6, 8, 9, 10, 12, 13, 16, 17, 18, 19, 22, 23, 24, 25,
            28, 29, 32, 33, 34, 35, 36, 37}

TreeNodes ==
    [id \in NodeIds |->
        CASE id = 1 -> Node("QQQ", 9, ">", 790, Goto(2), Goto(3))
          [] id = 2 -> Node("VIXY", 50, ">", 400, VIX15, Goto(4))
          [] id = 3 -> Node("SPY", 9, ">", 790, Goto(5), Goto(8))
          [] id = 4 -> Node("SPY", 9, ">", 825, VIX15, VIXBlend)
          [] id = 5 -> Node("VIXY", 60, ">", 400, VIX15, Goto(6))
          [] id = 6 -> Node("QQQ", 9, ">", 825, VIX15, VIXBlend)
          [] id = 8 -> Node("IOO", 9, ">", 800, Goto(9), Goto(12))
          [] id = 9 -> Node("VIXY", 60, ">", 400, VIX15, Goto(10))
          [] id = 10 -> Node("IOO", 9, ">", 825, VIX15, VIX1)
          [] id = 12 -> Node("XLP", 9, ">", 770, Goto(13), Goto(16))
          [] id = 13 -> Node("XLP", 9, ">", 825, VIX15, VIX1)
          [] id = 16 -> Node("VTV", 9, ">", 790, Goto(17), Goto(18))
          [] id = 17 -> Node("VTV", 9, ">", 825, VIX15, VIX1)
          [] id = 18 -> Node("XLF", 9, ">", 810, Goto(19), Goto(22))
          [] id = 19 -> Node("XLF", 9, ">", 850, VIX15, VIX1)
          [] id = 22 -> Node("VOX", 9, ">", 790, Goto(23), Goto(24))
          [] id = 23 -> Node("VOX", 9, ">", 825, VIX15, VIX1)
          [] id = 24 -> Node("CURE", 9, ">", 820, Goto(25), Goto(28))
          [] id = 25 -> Node("CURE", 9, ">", 850, VIX15, VIX1)
          [] id = 28 -> Node("RETL", 9, ">", 820, Goto(29), Goto(32))
          [] id = 29 -> Node("RETL", 9, ">", 850, VIX15, VIX1)
          [] id = 32 -> Node("LABU", 9, ">", 790, Str("LABD"), Goto(33))
          [] id = 33 -> Node("SOXL", 9, "<", 250, Str("SOXL"), Goto(34))
          [] id = 34 -> Node("FNGU", 9, "<", 250, Str("FNGU"), Goto(35))
          [] id = 35 -> Node("TQQQ", 9, "<", 280, Str("SPECIAL_LOGIC"), Goto(36))
          [] id = 36 -> Node("TECL", 9, "<", 250, Str("TECL"), Goto(37))
          [] id = 37 -> Node("UPRO", 9, "<", 250, Str("UPRO"), Str("BIL (T-Bill ETF)"))]

\* the dictionary with the false branch of node 12 mistyped (14 is no node)
logic_tree_dangling ==
    [TreeNodes EXCEPT ![12] = Node("XLP", 9, ">", 770, Goto(13), Goto(14))]

\* the dictionary execute_logic walks
logic_tree == TreeNodes

\* the traversal starts here: "current_id = 1"
EntryId == 1

\* the node ids the two successors of the nodes in `ids` name
Successors(ids) ==
    { s.id : s \in { x \in UNION {{logic_tree[i].true, logic_tree[i].false} :
                                     i \in ids \cap DOMAIN logic_tree} : ~x.isstr } }

RECURSIVE Closure(_)
Closure(ids) == IF Successors(ids) \subseteq ids THEN ids ELSE Closure(ids \cup Successors(ids))

\* the node ids that can be reached from the entry node
ReachableIds == Closure({EntryId})

\* the (ticker, window) pairs the reachable nodes read
ReferencedKeys ==
    {<<logic_tree[id].ticker, logic_tree[id].window>> : id \in ReachableIds \cap DOMAIN logic_tree}

-----------------------------------------------------------------------------
(* Tie-break resolver: execute_special_logic_35 *)

tickers_to_check == <<"SOXL", "TECL", "TQQQ", "FNGU">>

RECURSIVE InsertSorted_before_equal(_, _)
\* an insertion that puts x in front of the elements equal to it
InsertSorted_before_equal(sorted, x) ==
    IF sorted = <<>> THEN <<x>>
    ELSE IF ~Less(Head(sorted)[2], x[2]) THEN <<x>> \o sorted
    ELSE <<Head(sorted)>> \o InsertSorted_before_equal(Tail(sorted), x)

RECURSIVE InsertSorted(_, _)
\* insert x behind every element that is not greater: equal values keep their order
InsertSorted(sorted, x) ==
    IF sorted = <<>> THEN <<x>>
    ELSE IF Less(x[2], Head(sorted)[2]) THEN <<x>> \o sorted
    ELSE <<Head(sorted)>> \o InsertSorted(Tail(sorted), x)

RECURSIVE SortByRsi(_)
\* rsi_values.sort(key=lambda x: x[1]): ascending and stable
SortByRsi(rsi_values) ==
    IF rsi_values = <<>> THEN <<>>
    ELSE InsertSorted(SortByRsi(SubSeq(rsi_values, 1, Len(rsi_values) - 1)),
                      rsi_values[Len(rsi_values)])

\* [status, result]; formatting a None raises TypeError at the first print
execute_special_logic_35(cache) ==
    LET rsi_values == [i \in 1..Len(tickers_to_check) |->
                          <<tickers_to_check[i], get_rsi(cache, tickers_to_check[i], 9)>>]
        bottom_2 == SubSeq(SortByRsi(rsi_values), 1, 2)
    IN  IF \E i \in 1..Len(rsi_values) : rsi_values[i][2] = None
        THEN [status |-> "TypeError", result |-> NoLabel]
        ELSE [status |-> "ok",
              result |-> [text |-> "Buy {} and {} (Bottom 2 RSIs: {:.2f}, {:.2f})",
                          tickers |-> <<bottom_2[1][1], bottom_2[2][1]>>,
                          values |-> <<Format2f(bottom_2[1][2]), Format2f(bottom_2[2][2])>>]]

-----------------------------------------------------------------------------
(* Signal Tree Evaluator: execute_logic *)

\* node['condition'](): get_rsi(ticker, window) > threshold, or < threshold
Condition(node, cache) ==
    LET v == get_rsi(cache, node.ticker, node.window)
    IN  IF node.operator = ">"
        THEN v.n * 10 > node.threshold * v.d
        ELSE v.n * 10 < node.threshold * v.d

\* a pass that takes the false branch when the condition holds
Visit_branches_swapped(cache, id) ==
    LET node == logic_tree[id]
        result == Condition(node, cache)
    IN  [step |-> [ticker |-> node.ticker, window |-> node.window,
                   operator |-> node.operator, threshold |-> node.threshold,
                   result |-> result,
                   current_rsi |-> get_rsi(cache, node.ticker, node.window)],
         next_step |-> IF result THEN node.false ELSE node.true]

\* one pass of the while loop at current_id: the recorded step and next_step
Visit(cache, id) ==
    LET node == logic_tree[id]
        result == Condition(node, cache)
    IN  [step |-> [ticker |-> node.ticker, window |-> node.window,
                   operator |-> node.operator, threshold |-> node.threshold,
                   result |-> result,
                   current_rsi |-> get_rsi(cache, node.ticker, node.window)],
         next_step |-> IF result THEN node.true ELSE node.false]

\* what stops a pass before it records its step: logic_tree[current_id] of an
\* undefined id, or a comparison of None with a number
VisitError(cache, id) ==
    IF id \notin DOMAIN logic_tree THEN "KeyError"
    ELSE IF get_rsi(cache, logic_tree[id].ticker, logic_tree[id].window) = None
         THEN "TypeError"
         ELSE "ok"

\* "if isinstance(next_step, str)": the final result for a terminal successor
Terminal(cache, next_step) ==
    IF next_step.str = "SPECIAL_LOGIC"
    THEN execute_special_logic_35(cache)
    ELSE [status |-> "ok", result |-> Label(next_step.str)]

RECURSIVE Traverse(_, _, _)
\* the while loop from current_id on, with the path so far
Traverse(cache, id, path) ==
    IF VisitError(cache, id) # "ok"
    THEN [status |-> VisitError(cache, id), result |-> NoLabel, path |-> path]
    ELSE LET v == Visit(cache, id)
         IN  IF v.next_step.isstr
             THEN [status |-> Terminal(cache, v.next_step).status,
                   result |-> Terminal(cache, v.next_step).result,
                   path |-> Append(path, v.step)]
             ELSE Traverse(cache, v.next_step.id, Append(path, v.step))

\* execute_logic(): (final_decision, decision_path), or the exception raised
execute_logic(cache) == Traverse(cache, EntryId, <<>>)

-----------------------------------------------------------------------------
(* Data acquisition and the indicator pass *)

\* the row test off by one: "len(df) < 59"
Rejected_off_by_one(df) == df.err \/ df.rows = 0 \/ df.rows < MinRows - 1

\* "df.empty or len(df) < 60", or the download raised
Rejected(df) == df.err \/ df.rows = 0 \/ df.rows < MinRows

\* download_data(): ticker_data after the loop, and whether exit(1) is called
download_data(market) ==
    [data |-> [t \in TickerSet |-> IF Rejected(market[t]) THEN NoFrame ELSE market[t]],
     all_success |-> \A t \in TickerSet : ~Rejected(market[t])]

\* prices[~np.isnan(prices)]
Prices(df) == SelectSeq(Closes(df), LAMBDA p : p # NaN)

RECURSIVE Rsi9Loop(_, _, _)
\* the loop over TICKERS from index i on; print(f"{rsi_9:.2f}") raises TypeError
\* for None, after the value has been put in the cache
Rsi9Loop(data, cache, i) ==
    IF i > Len(TICKERS) THEN [status |-> "ok", cache |-> cache]
    ELSE IF data[TICKERS[i]] = NoFrame THEN Rsi9Loop(data, cache, i + 1)
    ELSE LET rsi_9 == calculate_rsi_sma(Prices(data[TICKERS[i]]), Window9)
             put == Put(cache, TICKERS[i], Window9, rsi_9)
         IN  IF rsi_9 = None
             THEN [status |-> "TypeError", cache |-> put]
             ELSE Rsi9Loop(data, put, i + 1)

\* calculate_all_rsi without the two extra VIXY windows
calculate_all_rsi_window9_only(data, cache) == Rsi9Loop(data, cache, 1)

\* calculate_all_rsi(): the cache it leaves, and whether it raised
calculate_all_rsi(data, cache) ==
    LET first == Rsi9Loop(data, cache, 1)
    IN  IF first.status # "ok" \/ data["VIXY"] = NoFrame
        THEN first
        ELSE LET prices == Prices(data["VIXY"])
                 rsi_50 == calculate_rsi_sma(prices, Window50)
                 rsi_60 == calculate_rsi_sma(prices, Window60)
                 put == Put(Put(first.cache, "VIXY", Window50, rsi_50), "VIXY", Window60, rsi_60)
             IN  [status |-> IF rsi_50 = None \/ rsi_60 = None THEN "TypeError" ELSE "ok",
                  cache |-> put]

-----------------------------------------------------------------------------
(* Clock *)

\* the first instant of a behaviour, as a UTC hour (20:00 UTC, 15:00 Eastern)
StartHour == 20

\* one advance of the clock, in hours
TickHours == 8

\* America/New_York is five hours behind UTC (standard time)
EasternOffset == 5

\* datetime.now(pytz.UTC).astimezone(et_tz).strftime('%Y-%m-%d'), as a day number
EasternDate(utc_hour) == (utc_hour - EasternOffset) \div 24

-----------------------------------------------------------------------------
(* Persisted state: state_manager.py *)

\* Python's None for "no record"
NoRecord == [none |-> TRUE, signal |-> NoLabel, date |-> 0 - 1, timestamp |-> 0 - 1,
             notified |-> FALSE]

\* read_state(): the stored document, or None when there is none, when it does
\* not parse as one JSON document, or when the read raised
read_state(file, read_ok) ==
    IF read_ok /\ Len(file) = 1 THEN file[1] ELSE NoRecord

\* the dict write_state() composes
StateDict(signal, notified_flag, utc_hour) ==
    [none |-> FALSE, signal |-> signal, date |-> EasternDate(utc_hour),
     timestamp |-> utc_hour, notified |-> notified_flag]

\* write_state that saves only the signals that were announced
write_state_if_notified(file, signal, notified_flag, utc_hour, outcome) ==
    IF outcome = "ok" /\ notified_flag THEN <<StateDict(signal, notified_flag, utc_hour)>>
    ELSE IF outcome = "truncated" THEN <<>>
    ELSE file

\* write_state that opens the file for appending
write_state_append(file, signal, notified_flag, utc_hour, outcome) ==
    IF outcome = "ok" THEN Append(file, StateDict(signal, notified_flag, utc_hour))
    ELSE IF outcome = "truncated" THEN <<>>
    ELSE file

\* write_state(): the store afterwards.  "ok": the document replaces the content
\* (open(..., 'w') / put_object).  "failed": the exception came before the store
\* was touched.  "truncated": open(..., 'w') emptied the file and the write raised.
write_state(file, signal, notified_flag, utc_hour, outcome) ==
    IF outcome = "ok" THEN <<StateDict(signal, notified_flag, utc_hour)>>
    ELSE IF outcome = "truncated" THEN <<>>
    ELSE file

WriteOutcomes == {"ok", "failed", "truncated"}

-----------------------------------------------------------------------------
(* Notification policy: should_notify *)

\* should_notify with the signal compared before the date
should_notify_signal_first(current_signal, last, today_date) ==
    IF last.none
    THEN [notify |-> TRUE, reason |-> "First run ever"]
    ELSE IF current_signal # last.signal
    THEN [notify |-> TRUE, reason |-> "Signal changed"]
    ELSE IF last.date # today_date
    THEN [notify |-> TRUE, reason |-> "First check of trading day"]
    ELSE [notify |-> FALSE, reason |-> "No change"]

\* should_notify without the rule for a missing record
should_notify_no_first_run(current_signal, last, today_date) ==
    IF last.date # today_date
    THEN [notify |-> TRUE, reason |-> "First check of trading day"]
    ELSE IF current_signal # last.signal
    THEN [notify |-> TRUE, reason |-> "Signal changed"]
    ELSE [notify |-> FALSE, reason |-> "No change"]

\* should_notify that reads the stored notified flag and asks again for a
\* notification that was not delivered
should_notify_retry_undelivered(current_signal, last, today_date) ==
    IF last.none
    THEN [notify |-> TRUE, reason |-> "First run ever"]
    ELSE IF last.date # today_date
    THEN [notify |-> TRUE, reason |-> "First check of trading day"]
    ELSE IF current_signal # last.signal
    THEN [notify |-> TRUE, reason |-> "Signal changed"]
    ELSE IF ~last.notified
    THEN [notify |-> TRUE, reason |-> "Not delivered"]
    ELSE [notify |-> FALSE, reason |-> "No change"]

should_notify(current_signal, last, today_date) ==
    IF last.none
    THEN [notify |-> TRUE, reason |-> "First run ever"]
    ELSE IF last.date # today_date
    THEN [notify |-> TRUE, reason |-> "First check of trading day"]
    ELSE IF current_signal # last.signal
    THEN [notify |-> TRUE, reason |-> "Signal changed"]
    ELSE [notify |-> FALSE, reason |-> "No change"]

\* "if notify and bot_token and chat_id": whether send_telegram_message is called
Attempts(notify_flag, bot_token, chat_id) == notify_flag /\ bot_token /\ chat_id

\* notified set as soon as a notification is due, whatever the send returned
Notified_when_due(notify_flag, bot_token, chat_id, send_ok) ==
    Attempts(notify_flag, bot_token, chat_id)

\* the value of notified after step 5 of main(); send_ok is what
\* send_telegram_message returned (False for a timeout or an error response)
Notified(notify_flag, bot_token, chat_id, send_ok) ==
    IF Attempts(notify_flag, bot_token, chat_id) THEN send_ok ELSE FALSE

-----------------------------------------------------------------------------
(* Scheduled-job handler: lambda_handler *)

NoResponse == [statusCode |-> 0, signal |-> NoLabel, error |-> ""]

\* try: result = main() ... except Exception.  SystemExit is not an Exception:
\* it leaves the handler without a response.
lambda_handler(result, label) ==
    IF result = "returned"
    THEN [statusCode |-> 200, signal |-> label, error |-> ""]
    ELSE IF result = "SystemExit"
    THEN NoResponse
    ELSE [statusCode |-> 500, signal |-> NoLabel, error |-> result]

-----------------------------------------------------------------------------
(* The run: lambda_handler -> main(), one invocation at a time.  Every        *)
(* invocation starts a fresh interpreter, so the globals start empty.         *)

NoData == [t \in TickerSet |-> NoFrame]

\* calculate_rsi_sma not called directly
NoCall == [prices |-> <<>>, window |-> 0, returned |-> FALSE, rsi |-> None]

\* nothing read, sent or written yet in this invocation
NoIO == [market |-> NoData, read |-> "none", decided_at |-> 0 - 1, bot_token |-> FALSE,
         chat_id |-> FALSE, send |-> "none", write |-> "none", wrote_at |-> 0 - 1]

Init ==
    /\ pc = "idle"
    /\ now = StartHour
    /\ ticker_data = NoData
    /\ rsi_cache = EmptyCache
    /\ final_decision = NoLabel
    /\ decision_path = <<>>
    /\ current_id = 0
    /\ last_state = NoRecord
    /\ today = 0 - 1
    /\ notify = FALSE
    /\ reason = ""
    /\ env = NoIO
    /\ notified = FALSE
    /\ state_file = <<>>
    /\ main_result = "none"
    /\ response = NoResponse
    /\ hist = [prev |-> NoRecord, due |-> FALSE, io_ok |-> TRUE, at_start |-> <<>>,
               visited |-> <<>>]
    /\ rsi_call = NoCall

\* the scheduler triggers lambda_handler, which calls main()
Invoke ==
    /\ pc \in {"idle", "done", "crashed"}
    /\ pc' = "download"
    /\ ticker_data' = NoData
    /\ rsi_cache' = EmptyCache
    /\ final_decision' = NoLabel
    /\ decision_path' = <<>>
    /\ last_state' = NoRecord
    /\ today' = 0 - 1
    /\ notify' = FALSE
    /\ reason' = ""
    /\ env' = NoIO
    /\ notified' = FALSE
    /\ main_result' = "none"
    /\ response' = NoResponse
    /\ hist' = [hist EXCEPT !.at_start = state_file]
    /\ UNCHANGED <<rsi_call, now, current_id, state_file>>

\* main(): download_data(); exit(1) raises SystemExit through main()
DownloadData ==
    /\ pc = "download"
    /\ \E market \in Markets :
         LET d == download_data(market)
         IN  /\ ticker_data' = d.data
             /\ env' = [env EXCEPT !.market = market]
             /\ IF d.all_success
                THEN /\ pc' = "calc"
                     /\ main_result' = main_result
                ELSE /\ pc' = "returning"
                     /\ main_result' = "SystemExit"
    /\ UNCHANGED <<rsi_call, now, rsi_cache, final_decision, decision_path, current_id, last_state,
                   today, notify, reason, notified, state_file, response, hist>>

\* main(): calculate_all_rsi()
CalculateAllRsi ==
    /\ pc = "calc"
    /\ LET c == calculate_all_rsi(ticker_data, rsi_cache)
       IN  /\ rsi_cache' = c.cache
           /\ IF c.status = "ok"
              THEN /\ pc' = "logic"
                   /\ main_result' = main_result
              ELSE /\ pc' = "returning"
                   /\ main_result' = c.status
    /\ UNCHANGED <<rsi_call, now, ticker_data, final_decision, decision_path, current_id, last_state,
                   today, notify, reason, env, notified, state_file, response, hist>>

\* main(): final_decision, decision_path = execute_logic()
ExecuteLogic ==
    /\ pc = "logic"
    /\ LET r == execute_logic(rsi_cache)
       IN  IF r.status = "ok"
           THEN /\ final_decision' = r.result
                /\ decision_path' = r.path
                /\ pc' = "decide"
                /\ main_result' = main_result
           ELSE /\ pc' = "returning"
                /\ main_result' = r.status
                /\ UNCHANGED <<final_decision, decision_path>>
    /\ UNCHANGED <<rsi_call, now, ticker_data, rsi_cache, current_id, last_state, today, notify,
                   reason, env, notified, state_file, response, hist>>

\* main() step 4: last_state = read_state(); notify, reason = should_notify(...)
Decide ==
    /\ pc = "decide"
    /\ \E read_ok \in BOOLEAN :
         LET last == read_state(state_file, read_ok)
             d == should_notify(final_decision, last, EasternDate(now))
         IN  /\ last_state' = last
             /\ today' = EasternDate(now)
             /\ notify' = d.notify
             /\ reason' = d.reason
             /\ env' = [env EXCEPT !.read = IF read_ok THEN "ok" ELSE "failed",
                                   !.decided_at = now]
             /\ hist' = IF hist.io_ok /\ read_ok
                        THEN hist
                        ELSE [hist EXCEPT !.prev = NoRecord, !.due = FALSE, !.io_ok = FALSE]
    /\ pc' = "send"
    /\ UNCHANGED <<rsi_call, now, ticker_data, rsi_cache, final_decision, decision_path, current_id,
                   notified, state_file, main_result, response>>

\* main() step 5: the two settings are read from the environment and, if the
\* policy said notify and both are set, the report is sent
Send ==
    /\ pc = "send"
    /\ \E bot_token \in BOOLEAN, chat_id \in BOOLEAN, send_ok \in BOOLEAN :
         /\ ~Attempts(notify, bot_token, chat_id) => send_ok
         /\ notified' = Notified(notify, bot_token, chat_id, send_ok)
         /\ env' = [env EXCEPT !.bot_token = bot_token, !.chat_id = chat_id,
                               !.send = IF ~Attempts(notify, bot_token, chat_id) THEN "none"
                                        ELSE IF send_ok THEN "ok" ELSE "failed"]
    /\ pc' = "save"
    /\ UNCHANGED <<rsi_call, now, ticker_data, rsi_cache, final_decision, decision_path, current_id,
                   last_state, today, notify, reason, state_file, main_result, response, hist>>

\* main() step 6: write_state(final_decision, notified); return final_decision
Save ==
    /\ pc = "save"
    /\ \E outcome \in WriteOutcomes :
         /\ state_file' = write_state(state_file, final_decision, notified, now, outcome)
         /\ env' = [env EXCEPT !.write = outcome, !.wrote_at = now]
         /\ hist' = IF hist.io_ok /\ outcome = "ok"
                    THEN [hist EXCEPT !.prev = StateDict(final_decision, notified, now),
                                      !.due = notify]
                    ELSE [hist EXCEPT !.prev = NoRecord, !.due = FALSE, !.io_ok = FALSE]
    /\ pc' = "returning"
    /\ main_result' = "returned"
    /\ UNCHANGED <<rsi_call, now, ticker_data, rsi_cache, final_decision, decision_path, current_id,
                   last_state, today, notify, reason, notified, response>>

\* lambda_handler: the return in the try block, or the except block
HandlerReturn ==
    /\ pc = "returning"
    /\ response' = lambda_handler(main_result, final_decision)
    /\ pc' = IF lambda_handler(main_result, final_decision) = NoResponse THEN "crashed" ELSE "done"
    /\ UNCHANGED <<rsi_call, now, ticker_data, rsi_cache, final_decision, decision_path, current_id,
                   last_state, today, notify, reason, env, notified, state_file, main_result,
                   hist>>

\* time passes
Tick ==
    /\ now < StartHour + MaxTicks * TickHours
    /\ now' = now + TickHours
    /\ UNCHANGED <<rsi_call, pc, ticker_data, rsi_cache, final_decision, decision_path, current_id,
                   last_state, today, notify, reason, env, notified, state_file, main_result,
                   response, hist>>

Next ==
    \/ Invoke
    \/ DownloadData
    \/ CalculateAllRsi
    \/ ExecuteLogic
    \/ Decide
    \/ Send
    \/ Save
    \/ HandlerReturn
    \/ Tick

Spec == Init /\ [][Next]_vars

-----------------------------------------------------------------------------
(* execute_logic on its own: the traversal pass by pass, over caches that     *)
(* need not come from calculate_all_rsi                                       *)

\* a cache entry that is left out (get_rsi then answers 0)
Absent == [n |-> 0 - 1, d |-> 1]

\* the values an entry is varied over: on and off the thresholds, and absent
TreeValues == {Absent, Tenths(0), Tenths(250), Tenths(790), Tenths(825), Tenths(850), Hundred}

\* every entry 50.0, the two VIXY entries `vixy`
BaseCache(vixy) == [k \in Keys |-> IF k[1] = "VIXY" /\ k[2] # Window9 THEN vixy ELSE Tenths(500)]

\* `cache` with the entries k1 and k2 set to v1 and v2, or left out
Vary(cache, k1, v1, k2, v2) ==
    LET set == [k \in Keys |-> IF k = k2 THEN v2 ELSE IF k = k1 THEN v1 ELSE cache[k]]
    IN  [k \in {x \in Keys : set[x] # Absent} |-> set[k]]

TreeCaches ==
    { Vary(BaseCache(vixy), k1, v1, k2, v2) :
        vixy \in {Tenths(300), Tenths(450)}, k1 \in Keys, v1 \in TreeValues,
        k2 \in Keys, v2 \in TreeValues }

TreeInit ==
    /\ pc = "tree"
    /\ now = StartHour
    /\ ticker_data = NoData
    /\ rsi_cache \in TreeCaches
    /\ final_decision = NoLabel
    /\ decision_path = <<>>
    /\ current_id = EntryId
    /\ last_state = NoRecord
    /\ today = 0 - 1
    /\ notify = FALSE
    /\ reason = ""
    /\ env = NoIO
    /\ notified = FALSE
    /\ state_file = <<>>
    /\ main_result = "none"
    /\ response = NoResponse
    /\ hist = [prev |-> NoRecord, due |-> FALSE, io_ok |-> TRUE, at_start |-> <<>>,
               visited |-> <<>>]
    /\ rsi_call = NoCall

\* one pass of the while loop of execute_logic
TreeStep ==
    /\ pc = "tree"
    /\ hist' = [hist EXCEPT !.visited = Append(hist.visited, current_id)]
    /\ IF VisitError(rsi_cache, current_id) # "ok"
       THEN /\ pc' = "tree_error"
            /\ main_result' = VisitError(rsi_cache, current_id)
            /\ UNCHANGED <<decision_path, final_decision, current_id>>
       ELSE LET v == Visit(rsi_cache, current_id)
            IN  /\ decision_path' = Append(decision_path, v.step)
                /\ IF v.next_step.isstr
                   THEN /\ final_decision' = Terminal(rsi_cache, v.next_step).result
                        /\ main_result' = Terminal(rsi_cache, v.next_step).status
                        /\ pc' = "tree_done"
                        /\ current_id' = current_id
                   ELSE /\ current_id' = v.next_step.id
                        /\ UNCHANGED <<pc, final_decision, main_result>>
    /\ UNCHANGED <<rsi_call, now, ticker_data, rsi_cache, last_state, today, notify, reason, env,
                   notified, state_file, response>>

TreeNext == TreeStep

TreeSpec == TreeInit /\ [][TreeNext]_vars

-----------------------------------------------------------------------------
(* execute_special_logic_35 on its own, over caches that need not come from   *)
(* the tree, followed by steps 4 to 6 of main() on the label it composed      *)

\* the RSI(9) values a candidate is given: equal and unequal ones, one that
\* does not fall on a hundredth (55.555...), and a missing entry
ResolverValues == {Absent, Tenths(200), Tenths(300), Tenths(400), [n |-> 500, d |-> 9]}

CandidateSet == {tickers_to_check[i] : i \in 1..Len(tickers_to_check)}

ResolverCaches ==
    { [k \in {<<t, Window9>> : t \in {c \in CandidateSet : f[c] # Absent}} |-> f[k[1]]] :
        f \in [CandidateSet -> ResolverValues] }

\* what an earlier run of the same day can have stored: nothing, another label,
\* or the label the resolver composes from this cache
ResolverStores(cache) ==
    {<<>>} \cup {<<StateDict(l, FALSE, StartHour)>> :
                    l \in {Label("BIL"), execute_special_logic_35(cache).result}}

ResolverInit ==
    /\ pc = "resolve"
    /\ now = StartHour
    /\ ticker_data = NoData
    /\ rsi_cache \in ResolverCaches
    /\ final_decision = NoLabel
    /\ decision_path = <<>>
    /\ current_id = 0
    /\ last_state = NoRecord
    /\ today = 0 - 1
    /\ notify = FALSE
    /\ reason = ""
    /\ env = NoIO
    /\ notified = FALSE
    /\ state_file \in ResolverStores(rsi_cache)
    /\ main_result = "none"
    /\ response = NoResponse
    /\ hist = [prev |-> read_state(state_file, TRUE), due |-> FALSE, io_ok |-> TRUE,
               at_start |-> state_file, visited |-> <<>>]
    /\ rsi_call = NoCall

\* execute_logic: "final_result = execute_special_logic_35()"
Resolve ==
    /\ pc = "resolve"
    /\ LET r == execute_special_logic_35(rsi_cache)
       IN  /\ final_decision' = r.result
           /\ main_result' = IF r.status = "ok" THEN main_result ELSE r.status
           /\ pc' = IF r.status = "ok" THEN "decide" ELSE "returning"
    /\ UNCHANGED <<rsi_call, now, ticker_data, rsi_cache, decision_path, current_id, last_state,
                   today, notify, reason, env, notified, state_file, response, hist>>

ResolverNext ==
    \/ Resolve
    \/ Decide
    \/ Send
    \/ Save
    \/ HandlerReturn

ResolverSpec == ResolverInit /\ [][ResolverNext]_vars

-----------------------------------------------------------------------------
(* calculate_rsi_sma on its own, called as test_rsi_calculation calls it      *)

\* test_rsi_calculation: test_prices
test_prices == <<100, 102, 101, 103, 102, 104, 105, 103, 106, 107>>

\* the closes a short series is made of
PriceValues == {1, 2, 3}

\* every series of at most MaxPrices closes
ShortSeries == UNION {[1..len -> PriceValues] : len \in 0..MaxPrices}

\* series as long as the windows of calculate_all_rsi need, and one close
\* shorter: flat, rising, rising with one fall at the end, and test_prices
LongSeries ==
    {test_prices}
    \cup {[i \in 1..len |-> 100] : len \in {Window9, Window9 + 1, Window60, Window60 + 1}}
    \cup {[i \in 1..len |-> 100 + i] : len \in {Window9, Window9 + 1, Window60, Window60 + 1}}
    \cup {[i \in 1..len |-> IF i = len THEN 100 ELSE 100 + i] : len \in {Window9 + 1, Window60 + 1}}

RsiCalls ==
    {[prices |-> p, window |-> w, returned |-> FALSE, rsi |-> None] :
        p \in ShortSeries, w \in 1..MaxWindow}
    \cup {[prices |-> p, window |-> w, returned |-> FALSE, rsi |-> None] :
        p \in LongSeries, w \in {Window9, Window50, Window60}}

RsiInit ==
    /\ pc = "rsi"
    /\ now = StartHour
    /\ ticker_data = NoData
    /\ rsi_cache = EmptyCache
    /\ final_decision = NoLabel
    /\ decision_path = <<>>
    /\ current_id = 0
    /\ last_state = NoRecord
    /\ today = 0 - 1
    /\ notify = FALSE
    /\ reason = ""
    /\ env = NoIO
    /\ notified = FALSE
    /\ state_file = <<>>
    /\ main_result = "none"
    /\ response = NoResponse
    /\ hist = [prev |-> NoRecord, due |-> FALSE, io_ok |-> TRUE, at_start |-> <<>>,
               visited |-> <<>>]
    /\ rsi_call \in RsiCalls

\* rsi_result = calculate_rsi_sma(prices, window)
CallRsi ==
    /\ pc = "rsi"
    /\ rsi_call' = [rsi_call EXCEPT !.returned = TRUE,
                                    !.rsi = calculate_rsi_sma(rsi_call.prices, rsi_call.window)]
    /\ pc' = "rsi_done"
    /\ UNCHANGED <<now, ticker_data, rsi_cache, final_decision, decision_path, current_id,
                   last_state, today, notify, reason, env, notified, state_file, main_result,
                   response, hist>>

RsiNext == CallRsi

RsiSpec == RsiInit /\ [][RsiNext]_vars

-----------------------------------------------------------------------------
(* Properties *)

\* C1: whenever should_notify has decided, its answer follows the four rules in
\* order: no record -> notify, "First run ever"; a record whose date is not the
\* US-Eastern date of that instant -> notify, "First check of trading day",
\* whether or not the label differs; same date, other label -> notify, "Signal
\* changed"; same date and same label -> no notification, "No change".
C1_ShouldNotifyRules ==
    env.read # "none" =>
        LET same_date == /\ last_state.date * 24 + 5 <= env.decided_at
                         /\ env.decided_at < (last_state.date + 1) * 24 + 5
        IN  /\ last_state.none => notify /\ reason = "First run ever"
            /\ (~last_state.none /\ ~same_date) =>
                   notify /\ reason = "First check of trading day"
            /\ (~last_state.none /\ same_date /\ final_decision # last_state.signal) =>
                   notify /\ reason = "Signal changed"
            /\ (~last_state.none /\ same_date /\ final_decision = last_state.signal) =>
                   ~notify /\ reason = "No change"

\* C1 witness: a record of an earlier date with another label: rule 2 decides
C1_Witness ==
    /\ pc = "send"
    /\ ~last_state.none
    /\ last_state.date # today
    /\ last_state.signal # final_decision
    /\ notify
    /\ reason = "First check of trading day"

\* C2: while every storage read and write has succeeded, a run calls
\* send_telegram_message only if no run completed before, or the previous
\* completed run stored another US-Eastern date than this run's, or it stored
\* another label; so a run with the date and the label of the previous completed
\* run sends nothing.
C2_NotifyOnlyOnChange ==
    (pc = "save" /\ hist.io_ok /\ env.send # "none") =>
        \/ hist.prev.none
        \/ ~(/\ hist.prev.date * 24 + 5 <= env.decided_at
             /\ env.decided_at < (hist.prev.date + 1) * 24 + 5)
        \/ hist.prev.signal # final_decision

\* C2 witness: a run after a completed run of the same date with the same label,
\* transport configured, and nothing sent
C2_Witness ==
    /\ pc = "save"
    /\ hist.io_ok
    /\ ~hist.prev.none
    /\ hist.prev.date = today
    /\ hist.prev.signal = final_decision
    /\ env.bot_token /\ env.chat_id
    /\ env.send = "none"

\* C3 as stated: every run that reached a decision has left exactly one stored
\* record, the new one, whose notified field is true iff the policy said notify,
\* both settings were present and the send returned true.
C3_Original ==
    (pc \in {"returning", "done"} /\ main_result = "returned") =>
        /\ Len(state_file) = 1
        /\ state_file[1].signal = final_decision
        /\ state_file[1].date * 24 + 5 <= env.wrote_at
        /\ env.wrote_at < (state_file[1].date + 1) * 24 + 5
        /\ state_file[1].notified =
               (notify /\ env.bot_token /\ env.chat_id /\ env.send = "ok")

\* C3 amended: every run that reached a decision calls write_state whether or not
\* it notified, and when that write succeeds the store holds exactly one record,
\* the new one (label, US-Eastern date of the write), whose notified field is true
\* iff the policy said notify, both settings were present and the send returned
\* true; when the write fails no new record is stored.
C3_SavesOneRecord ==
    (pc \in {"returning", "done"} /\ main_result = "returned") =>
        /\ env.write # "none"
        /\ env.write = "ok" =>
              /\ Len(state_file) = 1
              /\ state_file[1].signal = final_decision
              /\ state_file[1].date * 24 + 5 <= env.wrote_at
              /\ env.wrote_at < (state_file[1].date + 1) * 24 + 5
              /\ state_file[1].notified =
                     (notify /\ env.bot_token /\ env.chat_id /\ env.send = "ok")
        /\ env.write # "ok" => state_file \in {hist.at_start, <<>>}

\* C3 witness: a run that did not notify has replaced the record of an earlier run
C3_Witness ==
    /\ pc = "done"
    /\ env.write = "ok"
    /\ ~notify
    /\ Len(hist.at_start) = 1
    /\ state_file # hist.at_start
    /\ ~state_file[1].notified

\* C4: when the download of some ticker raised or gave fewer than 60 rows, the
\* run is aborted by download_data: the cache stays empty, no decision is made,
\* nothing is read, sent or written, and the store is as it was at the start.
C4_AbortLeavesNoTrace ==
    (pc \notin {"idle", "download"}
     /\ \E t \in TickerSet : env.market[t].err \/ env.market[t].rows < 60) =>
        /\ main_result = "SystemExit"
        /\ rsi_cache = EmptyCache
        /\ final_decision = NoLabel
        /\ decision_path = <<>>
        /\ env.read = "none" /\ env.send = "none" /\ env.write = "none"
        /\ ~notified
        /\ state_file = hist.at_start

\* C4 witness: one ticker came with 59 rows, the run was aborted and the record
\* of an earlier run is still stored
C4_Witness ==
    /\ pc = "crashed"
    /\ \E t \in TickerSet : ~env.market[t].err /\ env.market[t].rows = 59
    /\ Len(state_file) = 1

\* C5 as stated: lambda_handler always returns a response: 200 with the label
\* when main() returned, 500 with the error text for every failure of main(),
\* the abort of download_data included.
C5_HandlerAlwaysResponds ==
    (pc \in {"done", "crashed"}) =>
        /\ main_result = "returned" =>
              response.statusCode = 200 /\ response.signal = final_decision
        /\ main_result # "returned" =>
              response.statusCode = 500 /\ response.error # ""

\* C6: whenever the decision tree is about to be evaluated, or has been, the
\* cache holds a value that is not None for every (ticker, window) a node of the
\* tree reads; and a run whose accepted price histories leave a value missing
\* ends with an exception before the tree is evaluated.
C6_CacheCompleteBeforeTree ==
    LET complete == \A k \in ReferencedKeys : k \in DOMAIN rsi_cache /\ rsi_cache[k] # None
    IN  /\ (pc = "logic" \/ final_decision # NoLabel \/ decision_path # <<>>) => complete
        /\ (pc \in {"logic", "decide", "send", "save", "returning", "done", "crashed"}
            /\ main_result # "SystemExit" /\ ~complete) =>
               /\ main_result \notin {"none", "returned"}
               /\ final_decision = NoLabel
               /\ decision_path = <<>>

\* C6 witness: every ticker came with exactly 60 rows, VIXY RSI(60) is None, and
\* the run ended with an exception without evaluating the tree
C6_Witness ==
    /\ pc = "done"
    /\ \A t \in TickerSet : ticker_data[t].rows = 60
    /\ <<"VIXY", 60>> \in DOMAIN rsi_cache
    /\ rsi_cache[<<"VIXY", 60>>] = None
    /\ main_result = "TypeError"
    /\ final_decision = NoLabel

\* C7 as stated: when a notification was due, the transport configured and the
\* delivery failed, main() returns the label and a record with that label and
\* notified = false is stored.
C7_Original ==
    (pc \in {"returning", "done"} /\ env.send = "failed") =>
        /\ main_result = "returned"
        /\ pc = "done" => response.statusCode = 200 /\ response.signal = final_decision
        /\ Len(state_file) = 1
        /\ state_file[1].signal = final_decision
        /\ ~state_file[1].notified

\* C7 amended: when a notification was due, the transport configured and the
\* delivery failed, the run does not fail: main() returns the label, write_state
\* is called with notified = false, and when that write succeeds the stored record
\* has that label and notified = false.
C7_DeliveryFailureNotFatal ==
    (pc \in {"returning", "done"} /\ env.send = "failed") =>
        /\ main_result = "returned"
        /\ pc = "done" => response.statusCode = 200 /\ response.signal = final_decision
        /\ ~notified
        /\ env.write # "none"
        /\ env.write = "ok" =>
              /\ Len(state_file) = 1
              /\ state_file[1].signal = final_decision
              /\ ~state_file[1].notified

\* C7 witness: the delivery failed, the record was written and the handler
\* answered 200
C7_Witness ==
    /\ pc = "done"
    /\ notify /\ env.bot_token /\ env.chat_id
    /\ env.send = "failed"
    /\ env.write = "ok"
    /\ response.statusCode = 200
    /\ ~state_file[1].notified

\* C8: a failed read makes read_state answer None, so should_notify says notify
\* with "First run ever" and the run goes on; a failed write leaves main()
\* returning its label, which the handler reports as a success.
C8_StoreFailureNotFatal ==
    /\ env.read = "failed" =>
          /\ last_state = NoRecord
          /\ notify
          /\ reason = "First run ever"
          /\ main_result \in {"none", "returned"}
    /\ (pc \in {"returning", "done"} /\ env.write \in {"failed", "truncated"}) =>
          /\ main_result = "returned"
          /\ pc = "done" => response.statusCode = 200 /\ response.signal = final_decision

\* C8 witness: a record was stored, the read failed, the write failed, and the
\* handler answered 200
C8_Witness ==
    /\ pc = "done"
    /\ Len(hist.at_start) = 1
    /\ env.read = "failed"
    /\ env.write = "failed"
    /\ notify
    /\ response.statusCode = 200

\* C9: for every cache of numbers, the traversal starts at node 1, only visits
\* ids the dictionary defines, visits no id twice, never raises, follows at each
\* visited node the successor its recorded outcome chooses, and stops exactly at
\* the first node whose chosen successor is a string, after at least 2 and at
\* most 15 steps.
C9_TraversalTerminates ==
    LET visited == hist.visited
        chosen(i) == IF decision_path[i].result
                     THEN logic_tree[visited[i]].true
                     ELSE logic_tree[visited[i]].false
    IN  /\ pc # "tree_error"
        /\ current_id \in DOMAIN logic_tree
        /\ Len(visited) = Len(decision_path)
        /\ Len(visited) <= 15
        /\ Len(visited) >= 1 => visited[1] = 1
        /\ Len(visited) = 0 => current_id = 1
        /\ \A i \in 1..Len(visited) :
              /\ visited[i] \in DOMAIN logic_tree
              /\ \A j \in 1..Len(visited) : i # j => visited[i] # visited[j]
              /\ i < Len(visited) => ~chosen(i).isstr /\ chosen(i).id = visited[i + 1]
        /\ pc = "tree" =>
              /\ current_id \notin {visited[i] : i \in 1..Len(visited)}
              /\ Len(visited) >= 1 =>
                    ~chosen(Len(visited)).isstr /\ chosen(Len(visited)).id = current_id
        /\ pc = "tree_done" =>
              /\ Len(visited) >= 2
              /\ chosen(Len(visited)).isstr
              /\ main_result = "ok"
              /\ final_decision # NoLabel

\* C9 witness: the longest traversal, 15 steps, has ended at node 37
C9_Witness ==
    /\ pc = "tree_done"
    /\ Len(decision_path) = 15
    /\ hist.visited[15] = 37
    /\ final_decision = Label("BIL (T-Bill ETF)")

\* C10: for every cache with QQQ RSI(9) > 79 and VIXY RSI(50) > 40 the traversal
\* ends after exactly two steps with the label "1.5x VIX Group (VXX, UVIX)" and
\* the path (QQQ, 9, >, 79, true, value), (VIXY, 50, >, 40, true, value).
C10_VixGroupInTwoSteps ==
    (/\ <<"QQQ", 9>> \in DOMAIN rsi_cache
     /\ <<"VIXY", 50>> \in DOMAIN rsi_cache
     /\ rsi_cache[<<"QQQ", 9>>].n * 10 > 790 * rsi_cache[<<"QQQ", 9>>].d
     /\ rsi_cache[<<"VIXY", 50>>].n * 10 > 400 * rsi_cache[<<"VIXY", 50>>].d) =>
        /\ pc # "tree_error"
        /\ Len(decision_path) <= 2
        /\ Len(decision_path) = 2 => pc = "tree_done"
        /\ pc = "tree_done" =>
              /\ final_decision = Label("1.5x VIX Group (VXX, UVIX)")
              /\ decision_path =
                    << [ticker |-> "QQQ", window |-> 9, operator |-> ">", threshold |-> 790,
                        result |-> TRUE, current_rsi |-> rsi_cache[<<"QQQ", 9>>]],
                       [ticker |-> "VIXY", window |-> 50, operator |-> ">", threshold |-> 400,
                        result |-> TRUE, current_rsi |-> rsi_cache[<<"VIXY", 50>>]] >>

\* C10 witness: QQQ(9) = 85.0 and VIXY(50) = 45.0, traversal ended
C10_Witness ==
    /\ pc = "tree_done"
    /\ <<"QQQ", 9>> \in DOMAIN rsi_cache /\ rsi_cache[<<"QQQ", 9>>] = Tenths(850)
    /\ <<"VIXY", 50>> \in DOMAIN rsi_cache /\ rsi_cache[<<"VIXY", 50>>] = Tenths(450)
    /\ Len(decision_path) = 2
    /\ final_decision = Label("1.5x VIX Group (VXX, UVIX)")

\* the cache of the example: SOXL=20.0, TECL=30.0, TQQQ=20.0, FNGU=40.0
ExampleCache ==
    [k \in {<<t, Window9>> : t \in CandidateSet} |->
        IF k[1] = "TECL" THEN Tenths(300) ELSE IF k[1] = "FNGU" THEN Tenths(400) ELSE Tenths(200)]

\* the place of a candidate in tickers_to_check
Listed(t) == CHOOSE i \in 1..Len(tickers_to_check) : tickers_to_check[i] = t

\* candidate a comes before candidate b: it has the lower RSI(9), or the same
\* RSI(9) and the earlier place in the list
Before(cache, a, b) ==
    \/ Less(get_rsi(cache, a, Window9), get_rsi(cache, b, Window9))
    \/ /\ ~Less(get_rsi(cache, b, Window9), get_rsi(cache, a, Window9))
       /\ Listed(a) < Listed(b)

\* C11: once the resolver has run, the two tickers of its label are two
\* different candidates of [SOXL, TECL, TQQQ, FNGU]; the first has the lower
\* RSI(9) of the two or, if they are equal, is listed earlier; every other
\* candidate has a higher RSI(9) than the second or, if equal, is listed later.
\* For SOXL=20, TECL=30, TQQQ=20, FNGU=40 they are SOXL, then TQQQ.
C11_TwoLowestStable ==
    pc # "resolve" =>
        LET first == final_decision.tickers[1]
            second == final_decision.tickers[2]
        IN  /\ Len(final_decision.tickers) = 2
            /\ first \in CandidateSet
            /\ second \in CandidateSet
            /\ Before(rsi_cache, first, second)
            /\ \A c \in CandidateSet \ {first, second} : Before(rsi_cache, second, c)
            /\ rsi_cache = ExampleCache => final_decision.tickers = <<"SOXL", "TQQQ">>

\* the resolver has run on the example and picked SOXL, then TQQQ
C11_Witness ==
    /\ pc = "decide"
    /\ rsi_cache = ExampleCache
    /\ final_decision.tickers = <<"SOXL", "TQQQ">>

\* the decimal numeral `digits` / scale is the float v rounded to nearest
Rounds(v, digits, scale) ==
    LET diff == scale * v.n - digits * v.d
    IN  2 * (IF diff < 0 THEN 0 - diff ELSE diff) <= v.d

\* the label is the one this run compared with the stored one and, when the
\* write succeeded, the one in the store
LabelComparedAndPersisted ==
    /\ (pc \in {"send", "save", "returning", "done"} /\ ~last_state.none /\ last_state.date = today)
           => (notify <=> last_state.signal # final_decision)
    /\ (pc \in {"returning", "done"} /\ env.write = "ok")
           => (Len(state_file) = 1 /\ state_file[1].signal = final_decision)

\* C12 as stated: the two values of the resolver's label are formatted to one
\* decimal place, so the example reads "Buy SOXL and TQQQ (Bottom 2 RSIs: 20.0,
\* 20.0)", and that label is the one compared and persisted.
C12_Original ==
    /\ pc # "resolve" =>
          /\ final_decision.text = "Buy {} and {} (Bottom 2 RSIs: {:.1f}, {:.1f})"
          /\ Len(final_decision.values) = 2
          /\ \A i \in 1..2 :
                Rounds(get_rsi(rsi_cache, final_decision.tickers[i], Window9),
                       final_decision.values[i], 10)
          /\ rsi_cache = ExampleCache => final_decision.values = <<200, 200>>
    /\ LabelComparedAndPersisted

\* C12 (amended): the resolver's label is "Buy {first} and {second} (Bottom 2
\* RSIs: {v1}, {v2})" with each value the candidate's RSI(9) rounded to two
\* decimal places, so the example reads "Buy SOXL and TQQQ (Bottom 2 RSIs:
\* 20.00, 20.00)"; that label is the one should_notify compares with the stored
\* one, and the one in the store after a successful write.
C12_LabelTwoDecimals ==
    /\ pc # "resolve" =>
          /\ final_decision.text = "Buy {} and {} (Bottom 2 RSIs: {:.2f}, {:.2f})"
          /\ Len(final_decision.values) = 2
          /\ \A i \in 1..2 :
                Rounds(get_rsi(rsi_cache, final_decision.tickers[i], Window9),
                       final_decision.values[i], 100)
          /\ rsi_cache = ExampleCache =>
                /\ final_decision.tickers = <<"SOXL", "TQQQ">>
                /\ final_decision.values = <<2000, 2000>>
    /\ LabelComparedAndPersisted

\* the example's label "... 20.00, 20.00" was found equal to the stored one (no
\* notification) and stored again
C12_Witness ==
    /\ pc = "done"
    /\ rsi_cache = ExampleCache
    /\ final_decision.values = <<2000, 2000>>
    /\ ~last_state.none
    /\ last_state.signal = final_decision
    /\ ~notify
    /\ env.write = "ok"
    /\ state_file[1].signal = final_decision

\* none of the most recent `window` differences of `prices` is negative
NoRecentFall(prices, window) ==
    \A i \in 1..(Len(prices) - 1) :
        i > Len(prices) - 1 - window => prices[i + 1] >= prices[i]

\* C13: calculate_rsi_sma returns None for every series with fewer than
\* window+1 prices; for every longer series it returns a number without a zero
\* denominator, and if none of the most recent `window` differences is negative
\* (rising, or completely flat) that number is exactly 100.
C13_NoneOrHundred ==
    rsi_call.returned =>
        LET prices == rsi_call.prices
            window == rsi_call.window
            rsi == rsi_call.rsi
        IN  /\ Len(prices) < window + 1 => rsi = None
            /\ Len(prices) >= window + 1 => rsi.d > 0
            /\ (Len(prices) >= window + 1 /\ NoRecentFall(prices, window))
                   => (rsi.d > 0 /\ rsi.n = 100 * rsi.d)

\* a completely flat series of exactly window+1 prices has returned 100.0
C13_Witness ==
    /\ rsi_call.returned
    /\ rsi_call.window = MaxWindow
    /\ Len(rsi_call.prices) = rsi_call.window + 1
    /\ \A i \in 1..Len(rsi_call.prices) : rsi_call.prices[i] = rsi_call.prices[1]
    /\ rsi_call.rsi = Hundred

\* the previous completed run had decided to notify, did not deliver (failure,
\* or transport not configured), and stored its record for the date and the
\* label of this run's decision; every read and write up to here succeeded
UndeliveredToday ==
    /\ pc \in {"send", "save"}
    /\ hist.io_ok
    /\ ~hist.prev.none
    /\ hist.due
    /\ ~hist.prev.notified
    /\ hist.prev.date = today
    /\ hist.prev.signal = final_decision

\* the decision of this run is the one should_notify gives for the stored
\* record with its notified flag inverted
NotifiedNeverRead ==
    (pc \in {"send", "save"} /\ ~last_state.none) =>
        LET other == should_notify(final_decision, [last_state EXCEPT !.notified = ~@], today)
        IN  notify = other.notify /\ reason = other.reason

====
